---- MODULE Spec2Model ----
(***************************************************************************)
(* A model of the 13F comparison service: the reconciliation engine        *)
(* (services/comparator.py), the filing locator and its rate limiter       *)
(* (services/sec_client.py).                                               *)
(*                                                                         *)
(* Number representation.  The parser produces Python floats for a         *)
(* holding's value and shares.  A float x is modelled by the integer       *)
(* x * Scale (fixed point, resolution 1/Scale), so fractional inputs and   *)
(* the truncation int(x) are both present.  Percentages, which the code    *)
(* rounds to two decimals, are carried as exact rationals <<num, den>>     *)
(* and stored in rows in hundredths of a percent.  An Optional value is    *)
(* the empty set (None) or a singleton {v}.                                *)
(***************************************************************************)
EXTENDS Integers, Sequences, FiniteSets, TLC

VARIABLES
    current,      \* compare_filings argument: snapshot of the current filing
    prior,        \* compare_filings argument: snapshot of the prior filing
    results,      \* the list compare_filings returns (app.py `comparison`)
    summary,      \* the dict calculate_summary returns
    pc,           \* position in the compare route: "start", "compared", "done"
    \* SECClient.get_fund_filings and the calls it makes
    history,      \* the external source's `form` column for the fund, newest first
    submissions,  \* what get_company_submissions returned: None or the history
    fpc,          \* position in get_fund_filings
    scan_i,       \* loop index i of get_latest_13f_filings
    scanned,      \* number of history entries the loop has examined
    filing_list,  \* the list get_latest_13f_filings builds
    requests,     \* the outbound requests issued so far, in order
    current_url,  \* get_infotable_url result for filings[0]
    prior_url,    \* get_infotable_url result for filings[1]
    current_xml,  \* download_xml result for current_url
    prior_xml,    \* download_xml result for prior_url
    result,       \* the triple get_fund_filings returns
    \* SECClient rate limiter
    now,                \* time.time(), in ticks
    request_count,      \* self.request_count
    last_request_time,  \* self.last_request_time, in ticks
    issued,             \* issued[t]: outbound requests sent at tick t
    rpc,                \* "idle", or "send" between _rate_limit and session.get
    \* a comparison request: the routes compare and api_compare (app.py)
    rt_route,     \* "compare" or "api_compare"; "none" when no request runs
    rt_cik,       \* the cik the request carries
    rt_pc,        \* position in the route
    rt_fetched,   \* what sec_client.get_fund_filings did: a triple, or a raise
    rt_calls,     \* the service calls the request has made, in order
    rt_response,  \* the response the request ended in, "" while it runs
    \* parse_13f_xml: the loop over the infoTable entries
    px_ns,        \* whether the root element carries a namespace
    px_entries,   \* the infoTable entries of the document, in document order
    px_idx,       \* the entry the loop is at
    positions,    \* the dict the loop builds
    \* SECClient.get_infotable_url
    ix_pc,        \* "call", "answered", "returned"
    ix_accession, \* the filing whose document index is queried
    ix_resp,      \* the answer to the index request
    ix_url,       \* the location returned
    \* request-handling threads calling _rate_limit on the one SECClient
    thr_pc,       \* per thread: position in _rate_limit / session.get
    thr_tmp,      \* per thread: the value loaded by `self.request_count += 1`
    thr_wake,     \* per thread: the tick at which its time.sleep ends
    thr_calls,    \* per thread: outbound calls completed
    increments,   \* `+= 1` statements completed since the counter was last 0
    \* the lru_cache around SECClient.get_fund_filings
    world,        \* per cik: what an uncached retrieval would return now
    cache,        \* the cache entries, least recently used first
    last_call,    \* the last get_fund_filings call: cik, result, world then
    \* sessions and the login_required decorator (app.py)
    bypass,       \* config.DEBUG and config.DISABLE_AUTH_IN_DEV
    authenticated,\* per session: session.get('authenticated')
    served        \* the last request served: session, route, outcome

cmpVars == <<current, prior, results, summary, pc>>

fetchVars == <<history, submissions, fpc, scan_i, scanned, filing_list, requests,
               current_url, prior_url, current_xml, prior_xml, result>>

rateVars == <<now, request_count, last_request_time, issued, rpc>>

routeVars == <<rt_route, rt_cik, rt_pc, rt_fetched, rt_calls, rt_response>>

parseVars == <<px_ns, px_entries, px_idx, positions>>

indexVars == <<ix_pc, ix_accession, ix_resp, ix_url>>

concVars == <<thr_pc, thr_tmp, thr_wake, thr_calls, increments>>

cacheVars == <<world, cache, last_call>>

authVars == <<bypass, authenticated, served>>

\* the parts of the state added to the comparator, locator and limiter
extVars == <<routeVars, parseVars, indexVars, concVars, cacheVars, authVars>>

vars == <<cmpVars, fetchVars, rateVars, extVars>>

-----------------------------------------------------------------------------
(* Bounds of the model *)

Scale == 2              \* fixed-point resolution: floats are multiples of 1/Scale
MaxValueUnits == 2      \* a declared value is at most MaxValueUnits / Scale
MaxShareUnits == 2      \* a share count is at most MaxShareUnits / Scale
MaxForms == 4           \* a submission history has at most MaxForms entries
MaxFiles == 2           \* a document-index listing has at most MaxFiles files
TicksPerSecond == 2     \* resolution of the clock
MaxTime == 5            \* the clock is observed up to tick MaxTime
MaxCalls == 12          \* at most MaxCalls outbound calls are made

-----------------------------------------------------------------------------
(* Optional values and Python truthiness *)

None == {}
Some(v) == {v}
Get(o) == CHOOSE v \in o : TRUE
\* `x or 0`, `if x`: None and 0 are both falsy
Truthy(o) == o # {} /\ o # {0}
OrZero(o) == IF Truthy(o) THEN Get(o) ELSE 0

\* int(x) of a float x held in fixed point: truncation toward zero
IntTrunc(x) == IF x >= 0 THEN x \div Scale ELSE -((-x) \div Scale)

\* round(num/den, 2) in hundredths, den > 0; ties go to the even neighbour
RoundHalfEven(n, d) ==
    LET q == n \div d
        r == n % d
    IN  IF 2 * r < d THEN q
        ELSE IF 2 * r > d THEN q + 1
        ELSE IF q % 2 = 0 THEN q ELSE q + 1

RECURSIVE GCD(_, _)
GCD(a, b) == IF b = 0 THEN a ELSE GCD(b, a % b)

Abs(x) == IF x < 0 THEN -x ELSE x

\* the rational n/d, d > 0, in lowest terms
Rat(n, d) == LET g == GCD(Abs(n), d) IN <<n \div g, d \div g>>

Round2(rat) == RoundHalfEven(rat[1] * 100, rat[2])

RatZero == <<0, 1>>
RatSub(a, b) == Rat(a[1] * b[2] - b[1] * a[2], a[2] * b[2])

-----------------------------------------------------------------------------
(* The parts of the service that are not running in a given specification *)

Threads == { 1, 2 }
Sessions == { 1, 2 }
Ciks == { "1346824", "1067983" }

RouteIdle ==
    /\ rt_route = "none"
    /\ rt_cik = ""
    /\ rt_pc = "idle"
    /\ rt_fetched = <<>>
    /\ rt_calls = <<>>
    /\ rt_response = ""

ParseIdle ==
    /\ px_ns = FALSE
    /\ px_entries = <<>>
    /\ px_idx = 0
    /\ positions = <<>>

IndexIdle ==
    /\ ix_pc = "idle"
    /\ ix_accession = 0
    /\ ix_resp = <<>>
    /\ ix_url = <<>>

ConcIdle ==
    /\ thr_pc = [ t \in Threads |-> "idle" ]
    /\ thr_tmp = [ t \in Threads |-> 0 ]
    /\ thr_wake = [ t \in Threads |-> 0 ]
    /\ thr_calls = [ t \in Threads |-> 0 ]
    /\ increments = 0

CacheIdle ==
    /\ world = <<>>
    /\ cache = <<>>
    /\ last_call = <<>>

AuthIdle ==
    /\ bypass = FALSE
    /\ authenticated = [ s \in Sessions |-> FALSE ]
    /\ served = <<>>

ExtIdle ==
    /\ RouteIdle
    /\ ParseIdle
    /\ IndexIdle
    /\ ConcIdle
    /\ CacheIdle
    /\ AuthIdle

-----------------------------------------------------------------------------
(* Identifiers are strings, modelled as sequences of character codes *)

RECURSIVE LexLess(_, _)
LexLess(a, b) ==
    IF a = <<>> THEN b # <<>>
    ELSE IF b = <<>> THEN FALSE
    ELSE IF Head(a) # Head(b) THEN Head(a) < Head(b)
    ELSE LexLess(Tail(a), Tail(b))

MinCusip(S) == CHOOSE x \in S : \A y \in S \ {x} : LexLess(x, y)

\* SortedCusips with the order reversed: sorted(..., reverse=True)
RECURSIVE SortedDescending(_)
SortedDescending(S) ==
    IF S = {} THEN <<>>
    ELSE LET m == MinCusip(S) IN Append(SortedDescending(S \ {m}), m)

\* sorted(set(current.keys()) | set(prior.keys()))
RECURSIVE SortedCusips(_)
SortedCusips(S) ==
    IF S = {} THEN <<>>
    ELSE LET m == MinCusip(S) IN <<m>> \o SortedCusips(S \ {m})

TOTAL_CUSIP == <<84, 79, 84, 65, 76>>    \* "TOTAL"

-----------------------------------------------------------------------------
(* compare_filings *)

\* sum((pos.get('value') or 0) for pos in snapshot.values())
RECURSIVE SumValues(_, _)
SumValues(snap, keys) ==
    IF keys = {} THEN 0
    ELSE LET k == CHOOSE x \in keys : TRUE
         IN  OrZero(snap[k].value) + SumValues(snap, keys \ {k})

TotalValue(snap) == SumValues(snap, DOMAIN snap)

StatusOf(prv_shares, cur_shares) ==
    LET delta_shares == cur_shares - prv_shares
    IN  IF prv_shares = 0 /\ cur_shares > 0 THEN "NEW"
        ELSE IF prv_shares > 0 /\ cur_shares = 0 THEN "EXITED"
        ELSE IF delta_shares > 0 THEN "INCREASED"
        ELSE IF delta_shares < 0 THEN "DECREASED"
        ELSE "UNCHANGED"

\* PctChange with the new-position branch reporting 0.0 instead of None
PctChangeZeroForNew(prv_val, cur_val) ==
    IF Truthy(prv_val) /\ Get(prv_val) > 0
    THEN IF Truthy(cur_val)
         THEN Some(Rat((Get(cur_val) - Get(prv_val)) * 100, Get(prv_val)))
         ELSE Some(<<-100, 1>>)
    ELSE Some(RatZero)

\* the percentage change in value: None, or a rational number of percent
PctChange(prv_val, cur_val) ==
    IF Truthy(prv_val) /\ Get(prv_val) > 0
    THEN IF Truthy(cur_val)
         THEN Some(Rat((Get(cur_val) - Get(prv_val)) * 100, Get(prv_val)))
         ELSE Some(<<-100, 1>>)
    ELSE IF Truthy(cur_val) /\ Get(cur_val) > 0 THEN None
    ELSE Some(RatZero)

\* PortfolioPct with the ratio inverted: total / val * 100
PortfolioPctInverted(val, total) ==
    IF Truthy(val) /\ total # 0 THEN Rat(total * 100, Get(val)) ELSE RatZero

\* (val / total * 100) if val and total else 0.0
PortfolioPct(val, total) ==
    IF Truthy(val) /\ total # 0 THEN Rat(Get(val) * 100, total) ELSE RatZero

\* int(val) if val else None
RowValue(val) == IF Truthy(val) THEN Some(IntTrunc(Get(val))) ELSE None

RowFor(cusip, cur_snap, prv_snap, total_current_value, total_prior_value) ==
    LET hasCur == cusip \in DOMAIN cur_snap
        hasPrv == cusip \in DOMAIN prv_snap
        cur_shares == IF hasCur THEN cur_snap[cusip].shares ELSE 0
        prv_shares == IF hasPrv THEN prv_snap[cusip].shares ELSE 0
        delta_shares == cur_shares - prv_shares
        info == IF hasCur THEN cur_snap[cusip] ELSE prv_snap[cusip]
        cur_val == IF hasCur THEN cur_snap[cusip].value ELSE None
        prv_val == IF hasPrv THEN prv_snap[cusip].value ELSE None
        pct_change == PctChange(prv_val, cur_val)
        current_pct == PortfolioPct(cur_val, total_current_value)
        prior_pct == PortfolioPct(prv_val, total_prior_value)
    IN  [ cusip |-> cusip,
          issuer |-> info.issuer,
          titleOfClass |-> info.titleOfClass,
          prior_shares |-> Some(IntTrunc(prv_shares)),
          current_shares |-> Some(IntTrunc(cur_shares)),
          delta_shares |-> Some(IntTrunc(delta_shares)),
          prior_value |-> RowValue(prv_val),
          current_value |-> RowValue(cur_val),
          percent_change |->
              IF pct_change # None THEN Some(Round2(Get(pct_change))) ELSE None,
          status |-> StatusOf(prv_shares, cur_shares),
          prior_percent_of_portfolio |-> Round2(prior_pct),
          current_percent_of_portfolio |-> Round2(current_pct),
          change_in_portfolio_pct |-> Round2(RatSub(current_pct, prior_pct)) ]

TotalRow(total_current_value, total_prior_value) ==
    [ cusip |-> TOTAL_CUSIP,
      issuer |-> "Total Assets Under Management",
      titleOfClass |-> "",
      prior_shares |-> None,
      current_shares |-> None,
      delta_shares |-> None,
      prior_value |-> Some(IntTrunc(total_prior_value)),
      current_value |-> Some(IntTrunc(total_current_value)),
      percent_change |->
          IF total_prior_value # 0
          THEN Some(Round2(Rat((total_current_value - total_prior_value) * 100,
                               total_prior_value)))
          ELSE Some(0),
      status |-> "TOTAL",
      prior_percent_of_portfolio |-> 10000,
      current_percent_of_portfolio |-> 10000,
      change_in_portfolio_pct |-> 0 ]

compare_filings(cur_snap, prv_snap) ==
    LET all_cusips == SortedCusips(DOMAIN cur_snap \cup DOMAIN prv_snap)
        total_current_value == TotalValue(cur_snap)
        total_prior_value == TotalValue(prv_snap)
    IN  [ i \in 1..Len(all_cusips) |->
            RowFor(all_cusips[i], cur_snap, prv_snap,
                   total_current_value, total_prior_value) ]
        \o <<TotalRow(total_current_value, total_prior_value)>>

-----------------------------------------------------------------------------
(* calculate_summary *)

InitialSummary(comparison) ==
    [ total_positions |-> Len(comparison),
      new_positions |-> 0,
      exited_positions |-> 0,
      increased_positions |-> 0,
      decreased_positions |-> 0,
      unchanged_positions |-> 0,
      total_current_value |-> 0 ]

Bump(s, status, name, field) ==
    IF status = name THEN s[field] + 1 ELSE s[field]

\* one iteration of `for row in comparison`
SummaryStep(s, row) ==
    [ total_positions |-> s.total_positions,
      new_positions |-> Bump(s, row.status, "NEW", "new_positions"),
      exited_positions |-> Bump(s, row.status, "EXITED", "exited_positions"),
      increased_positions |-> Bump(s, row.status, "INCREASED", "increased_positions"),
      decreased_positions |-> Bump(s, row.status, "DECREASED", "decreased_positions"),
      unchanged_positions |-> Bump(s, row.status, "UNCHANGED", "unchanged_positions"),
      total_current_value |->
          IF Truthy(row.current_value)
          THEN s.total_current_value + Get(row.current_value)
          ELSE s.total_current_value ]

RECURSIVE SummaryFold(_, _, _)
SummaryFold(s, comparison, i) ==
    IF i > Len(comparison) THEN s
    ELSE SummaryFold(SummaryStep(s, comparison[i]), comparison, i + 1)

calculate_summary(comparison) ==
    SummaryFold(InitialSummary(comparison), comparison, 1)

-----------------------------------------------------------------------------
(* Inputs: snapshots as parse_13f_xml builds them *)

Holding(cusip, value, shares) ==
    [ issuer |-> "ACME INC", titleOfClass |-> "COM", cusip |-> cusip,
      value |-> value, shares |-> shares ]

DeclaredValues == {None} \cup {Some(v) : v \in 0..MaxValueUnits}
ShareCounts == 0..MaxShareUnits

\* every snapshot over the identifiers ids whose holdings draw their value
\* and shares from the given sets
SnapshotsOver(ids, values, shares) ==
    UNION { [ keys -> values \X shares ] : keys \in SUBSET ids }

AsSnapshot(f) == [ k \in DOMAIN f |-> Holding(k, f[k][1], f[k][2]) ]

DetailIds == { <<65>>, <<66>> }                            \* "A", "B"
OrderIds == { <<65>>, <<65, 66>>, <<66>>, <<66, 65>> }     \* "A", "AB", "B", "BA"

DetailSnapshots ==
    { AsSnapshot(f) : f \in SnapshotsOver(DetailIds, DeclaredValues, ShareCounts) }
OrderSnapshots ==
    { AsSnapshot(f) : f \in SnapshotsOver(OrderIds, {Some(Scale)}, {Scale}) }

\* the end-to-end scenario of the specification, section 8
ScenarioPrior ==
    ( <<65>> :> Holding(<<65>>, Some(1000 * Scale), 100 * Scale) )
ScenarioCurrent ==
    ( <<65>> :> Holding(<<65>>, Some(1800 * Scale), 150 * Scale) ) @@
    ( <<66>> :> Holding(<<66>>, Some(400 * Scale), 50 * Scale) )

InputPairs ==
    (DetailSnapshots \X DetailSnapshots)
    \cup (OrderSnapshots \X OrderSnapshots)
    \cup { <<ScenarioCurrent, ScenarioPrior>> }

NoSummary == InitialSummary(<<>>)

\* the comparison has not been entered
CompareIdle ==
    /\ current = <<>>
    /\ prior = <<>>
    /\ results = <<>>
    /\ summary = NoSummary
    /\ pc = "idle"

-----------------------------------------------------------------------------
(* SECClient rate limiter state (sec_client.py, config.py) *)

SEC_RATE_LIMIT_REQUESTS == 10
SEC_RATE_LIMIT_PERIOD == 1 * TicksPerSecond      \* 1.0 second

Ticks == 0..MaxTime

\* SECClient.__init__ at tick 0
RateIdle ==
    /\ now = 0
    /\ request_count = 0
    /\ last_request_time = 0
    /\ issued = [ t \in Ticks |-> 0 ]
    /\ rpc = "idle"

-----------------------------------------------------------------------------
(* SECClient: filing discovery and retrieval (sec_client.py) *)

FormTags == { "13F-HR", "13F-HR/A", "10-K" }

RECURSIVE SeqsUpTo(_, _)
SeqsUpTo(S, n) ==
    IF n = 0 THEN { <<>> }
    ELSE LET shorter == SeqsUpTo(S, n - 1)
         IN  shorter \cup { Append(q, x) : q \in shorter, x \in S }

\* the `form` column of filings.recent; entry k of the columns accessionNumber,
\* filingDate and reportDate belongs to the same filing and is identified by k
Histories == SeqsUpTo(FormTags, MaxForms)

\* forms[scan_i] matching any 13F-HR variant, amendments included
IsQuarterlyFormOrAmendment(tag) == tag \in { "13F-HR", "13F-HR/A" }

\* forms[scan_i] == '13F-HR'
IsQuarterlyForm(tag) == tag = "13F-HR"

FilingEntry(k) == [ accessionNumber |-> k, filingDate |-> k, reportDate |-> k ]

\* file names of a document index, by what the code asks of a name
FileNames ==
    { "infotable.xml", "InfoTable.XML", "primary_doc.xml", "cover_page.xml",
      "holdings.xml", "index.html" }

\* name.lower() == 'infotable.xml'
LowerIsInfotable(name) == name \in { "infotable.xml", "InfoTable.XML" }
\* name.endswith('.xml')
EndsWithXml(name) ==
    name \in { "infotable.xml", "primary_doc.xml", "cover_page.xml", "holdings.xml" }
\* 'primary' in name.lower()
HasPrimary(name) == name = "primary_doc.xml"
\* 'cover' in name.lower()
HasCover(name) == name = "cover_page.xml"

NotPrimaryXml(name) == EndsWithXml(name) /\ ~HasPrimary(name) /\ ~HasCover(name)

\* the first element of a list of names, or None when it is empty
FirstOf(names) == IF names = <<>> THEN None ELSE Some(names[1])

\* strategy 1: the first file whose lower-cased name is 'infotable.xml'
FirstInfotable(files) == FirstOf(SelectSeq(files, LowerIsInfotable))

\* strategy 2: the first XML file that is neither primary nor cover
FirstNotPrimaryXml(files) == FirstOf(SelectSeq(files, NotPrimaryXml))

XmlFiles(files) == SelectSeq(files, EndsWithXml)

\* what the index query can produce: an exception, a non-200 status, or a
\* 200 response listing files
IndexResponses ==
    { [ kind |-> "raise", files |-> <<>> ], [ kind |-> "status", files |-> <<>> ] }
    \cup { [ kind |-> "ok", files |-> fs ] : fs \in SeqsUpTo(FileNames, MaxFiles) }

\* a location: the filing's base path and a file name under it
Url(accession, name) == [ base |-> accession, name |-> name ]

\* InfotableUrlAnyXmlFirst: InfotableUrl with strategy 2 tried before strategy 1
InfotableUrlAnyXmlFirst(accession, resp) ==
    LET files == resp.files
        s1 == FirstInfotable(files)
        s2 == FirstNotPrimaryXml(files)
        xml_files == XmlFiles(files)
    IN  IF resp.kind # "ok" THEN Url(accession, "infotable.xml")
        ELSE IF s2 # None THEN Url(accession, Get(s2))
        ELSE IF s1 # None THEN Url(accession, Get(s1))
        ELSE IF Len(xml_files) = 1 THEN Url(accession, xml_files[1])
        ELSE Url(accession, "infotable.xml")

\* get_infotable_url after the index request has been answered by resp
InfotableUrl(accession, resp) ==
    LET files == resp.files
        s1 == FirstInfotable(files)
        s2 == FirstNotPrimaryXml(files)
        xml_files == XmlFiles(files)
    IN  IF resp.kind # "ok" THEN Url(accession, "infotable.xml")
        ELSE IF s1 # None THEN Url(accession, Get(s1))
        ELSE IF s2 # None THEN Url(accession, Get(s2))
        ELSE IF Len(xml_files) = 1 THEN Url(accession, xml_files[1])
        ELSE Url(accession, "infotable.xml")

\* what download_xml can return: None on a request error, else response.text
XmlResults == { None, Some(""), Some("<informationTable/>") }

\* `not xml`
NotXml(x) == x = None \/ x = Some("")

FailureTriple == <<None, None, None>>

Metadata(filings) ==
    [ current_date |-> filings[1].filingDate,
      prior_date |-> filings[2].filingDate,
      current_report_date |-> filings[1].reportDate,
      prior_report_date |-> filings[2].reportDate ]

SubmissionsRequest == [ kind |-> "submissions", target |-> <<>> ]
IndexRequest(accession) == [ kind |-> "index", target |-> <<accession>> ]
DocumentRequest(url) == [ kind |-> "document", target |-> <<url.base, url.name>> ]

NoUrl == Url(0, "")

\* no retrieval is in progress
FetchIdle ==
    /\ history = <<>>
    /\ submissions = None
    /\ fpc = "idle"
    /\ scan_i = 0
    /\ scanned = 0
    /\ filing_list = <<>>
    /\ requests = <<>>
    /\ current_url = NoUrl
    /\ prior_url = NoUrl
    /\ current_xml = None
    /\ prior_xml = None
    /\ result = <<>>

\* get_fund_filings(cik) is called on a fund whose history is any of Histories
InitFetch ==
    /\ history \in Histories
    /\ submissions = None
    /\ fpc = "submissions"
    /\ scan_i = 0
    /\ scanned = 0
    /\ filing_list = <<>>
    /\ requests = <<>>
    /\ current_url = NoUrl
    /\ prior_url = NoUrl
    /\ current_xml = None
    /\ prior_xml = None
    /\ result = <<>>
    /\ CompareIdle
    /\ RateIdle
    /\ ExtIdle

\* get_company_submissions, and the first lines of get_latest_13f_filings:
\* the lookup fails (None) or returns the history
GetCompanySubmissions ==
    /\ fpc = "submissions"
    /\ requests' = Append(requests, SubmissionsRequest)
    /\ \E ok \in BOOLEAN :
         /\ submissions' = IF ok THEN Some(history) ELSE None
         /\ fpc' = IF ok THEN "scan" ELSE "check"
    /\ scan_i' = 1
    /\ UNCHANGED <<history, scanned, filing_list, current_url, prior_url,
                   current_xml, prior_xml, result>>
    /\ UNCHANGED <<cmpVars, rateVars, extVars>>

\* one iteration of `for i in range(len(forms))`, count = 2
ScanStep ==
    /\ fpc = "scan"
    /\ scan_i <= Len(Get(submissions))
    /\ scanned' = scanned + 1
    /\ LET forms == Get(submissions)
           found == IF IsQuarterlyForm(forms[scan_i])
                    THEN Append(filing_list, FilingEntry(scan_i))
                    ELSE filing_list
       IN  /\ filing_list' = found
           /\ IF IsQuarterlyForm(forms[scan_i]) /\ Len(found) >= 2
              THEN fpc' = "check" /\ scan_i' = scan_i
              ELSE fpc' = "scan" /\ scan_i' = scan_i + 1
    /\ UNCHANGED <<history, submissions, requests, current_url, prior_url,
                   current_xml, prior_xml, result>>
    /\ UNCHANGED <<cmpVars, rateVars, extVars>>

\* the loop runs off the end of the history
ScanEnd ==
    /\ fpc = "scan"
    /\ scan_i > Len(Get(submissions))
    /\ fpc' = "check"
    /\ UNCHANGED <<history, submissions, scan_i, scanned, filing_list, requests,
                   current_url, prior_url, current_xml, prior_xml, result>>
    /\ UNCHANGED <<cmpVars, rateVars, extVars>>

\* get_fund_filings: `if len(filings) < 2: return None, None, None`
CheckFilings ==
    /\ fpc = "check"
    /\ IF Len(filing_list) < 2
       THEN result' = FailureTriple /\ fpc' = "returned"
       ELSE result' = result /\ fpc' = "url_current"
    /\ UNCHANGED <<history, submissions, scan_i, scanned, filing_list, requests,
                   current_url, prior_url, current_xml, prior_xml>>
    /\ UNCHANGED <<cmpVars, rateVars, extVars>>

GetInfotableUrlCurrent ==
    /\ fpc = "url_current"
    /\ requests' = Append(requests, IndexRequest(filing_list[1].accessionNumber))
    /\ \E resp \in IndexResponses :
         current_url' = InfotableUrl(filing_list[1].accessionNumber, resp)
    /\ fpc' = "url_prior"
    /\ UNCHANGED <<history, submissions, scan_i, scanned, filing_list, prior_url,
                   current_xml, prior_xml, result>>
    /\ UNCHANGED <<cmpVars, rateVars, extVars>>

GetInfotableUrlPrior ==
    /\ fpc = "url_prior"
    /\ requests' = Append(requests, IndexRequest(filing_list[2].accessionNumber))
    /\ \E resp \in IndexResponses :
         prior_url' = InfotableUrl(filing_list[2].accessionNumber, resp)
    /\ fpc' = "download_current"
    /\ UNCHANGED <<history, submissions, scan_i, scanned, filing_list, current_url,
                   current_xml, prior_xml, result>>
    /\ UNCHANGED <<cmpVars, rateVars, extVars>>

DownloadXmlCurrent ==
    /\ fpc = "download_current"
    /\ requests' = Append(requests, DocumentRequest(current_url))
    /\ current_xml' \in XmlResults
    /\ fpc' = "download_prior"
    /\ UNCHANGED <<history, submissions, scan_i, scanned, filing_list, current_url,
                   prior_url, prior_xml, result>>
    /\ UNCHANGED <<cmpVars, rateVars, extVars>>

DownloadXmlPrior ==
    /\ fpc = "download_prior"
    /\ requests' = Append(requests, DocumentRequest(prior_url))
    /\ prior_xml' \in XmlResults
    /\ fpc' = "finish"
    /\ UNCHANGED <<history, submissions, scan_i, scanned, filing_list, current_url,
                   prior_url, current_xml, result>>
    /\ UNCHANGED <<cmpVars, rateVars, extVars>>

\* `if not current_xml or not prior_xml: return None, None, None`, else the
\* two documents and the metadata
ReturnFilings ==
    /\ fpc = "finish"
    /\ result' = IF NotXml(current_xml) \/ NotXml(prior_xml)
                 THEN FailureTriple
                 ELSE <<current_xml, prior_xml, Some(Metadata(filing_list))>>
    /\ fpc' = "returned"
    /\ UNCHANGED <<history, submissions, scan_i, scanned, filing_list, requests,
                   current_url, prior_url, current_xml, prior_xml>>
    /\ UNCHANGED <<cmpVars, rateVars, extVars>>

NextFetch ==
    \/ GetCompanySubmissions
    \/ ScanStep
    \/ ScanEnd
    \/ CheckFilings
    \/ GetInfotableUrlCurrent
    \/ GetInfotableUrlPrior
    \/ DownloadXmlCurrent
    \/ DownloadXmlPrior
    \/ ReturnFilings

SpecFetch == InitFetch /\ [][NextFetch]_vars

-----------------------------------------------------------------------------
(* SECClient._rate_limit and the outbound calls it precedes (sec_client.py) *)

RECURSIVE SumIssued(_, _, _)
SumIssued(f, from, to) ==
    IF from > to THEN 0 ELSE f[from] + SumIssued(f, from + 1, to)

TotalIssued == SumIssued(issued, 0, MaxTime)

InitRate ==
    /\ RateIdle
    /\ CompareIdle
    /\ FetchIdle
    /\ ExtIdle

\* the clock advances
Tick ==
    /\ now < MaxTime
    /\ now' = now + 1
    /\ UNCHANGED <<request_count, last_request_time, issued, rpc>>
    /\ UNCHANGED <<cmpVars, fetchVars, extVars>>

\* the tick at which a sleep begun now for the rest of the window ends
WakeTime(elapsed) ==
    IF elapsed < SEC_RATE_LIMIT_PERIOD
    THEN now + (SEC_RATE_LIMIT_PERIOD - elapsed)
    ELSE now

\* _rate_limit, called by get_company_submissions, get_infotable_url and
\* download_xml before session.get; time.sleep may return late
RateLimit ==
    /\ rpc = "idle"
    /\ TotalIssued < MaxCalls
    /\ IF request_count + 1 >= SEC_RATE_LIMIT_REQUESTS
       THEN LET elapsed == now - last_request_time
            IN  /\ \E t \in Ticks :
                     /\ t >= WakeTime(elapsed)
                     /\ elapsed >= SEC_RATE_LIMIT_PERIOD => t = now
                     /\ now' = t
                     /\ last_request_time' = t
                /\ request_count' = 0
       ELSE /\ request_count' = request_count + 1
            /\ UNCHANGED <<now, last_request_time>>
    /\ rpc' = "send"
    /\ UNCHANGED issued
    /\ UNCHANGED <<cmpVars, fetchVars, extVars>>

\* session.get: the outbound request leaves
SendRequest ==
    /\ rpc = "send"
    /\ issued' = [ issued EXCEPT ![now] = @ + 1 ]
    /\ rpc' = "idle"
    /\ UNCHANGED <<now, request_count, last_request_time>>
    /\ UNCHANGED <<cmpVars, fetchVars, extVars>>

NextRate == Tick \/ RateLimit \/ SendRequest

SpecRate == InitRate /\ [][NextRate]_vars

-----------------------------------------------------------------------------
(* The comparison step of the compare route: app.py 157-159 *)

Init ==
    /\ \E p \in InputPairs : current = p[1] /\ prior = p[2]
    /\ results = <<>>
    /\ summary = NoSummary
    /\ pc = "start"
    /\ FetchIdle
    /\ RateIdle
    /\ ExtIdle

CompareFilings ==
    /\ pc = "start"
    /\ results' = compare_filings(current, prior)
    /\ pc' = "compared"
    /\ UNCHANGED <<current, prior, summary>>
    /\ UNCHANGED <<fetchVars, rateVars, extVars>>

CalculateSummary ==
    /\ pc = "compared"
    /\ summary' = calculate_summary(results)
    /\ pc' = "done"
    /\ UNCHANGED <<current, prior, results>>
    /\ UNCHANGED <<fetchVars, rateVars, extVars>>

Next == CompareFilings \/ CalculateSummary

Spec == Init /\ [][Next]_vars

-----------------------------------------------------------------------------
(* Properties of the reconciliation engine *)

Compared == pc # "start"
RowCount == Len(results) - 1                 \* rows before the last one
DataRows == 1..RowCount
LastRow == results[Len(results)]
UnionKeys == DOMAIN current \cup DOMAIN prior

\* the declared value of the holding of cusip in snap: None when there is no
\* such holding or its value is undeclared
DeclaredValue(snap, cusip) ==
    IF cusip \in DOMAIN snap THEN snap[cusip].value ELSE None

RECURSIVE SumRows(_, _, _)
SumRows(rows, n, field) ==
    IF n = 0 THEN 0
    ELSE (IF rows[n][field] = None THEN 0 ELSE Get(rows[n][field]))
         + SumRows(rows, n - 1, field)

CountStatus(rows, n, status) == Cardinality({ i \in 1..n : rows[i].status = status })

Statuses == { "NEW", "EXITED", "INCREASED", "DECREASED", "UNCHANGED" }

\* C1: the rows before the last carry exactly the union of the keys of both
\* snapshots, each once, in strictly increasing lexicographic order, and the
\* last row is the synthetic row with cusip 'TOTAL' and status 'TOTAL'.
C1_SortedUnionTotalLast ==
    Compared =>
        /\ Len(results) >= 1
        /\ LastRow.cusip = TOTAL_CUSIP
        /\ LastRow.status = "TOTAL"
        /\ { results[i].cusip : i \in DataRows } = UnionKeys
        /\ RowCount = Cardinality(UnionKeys)
        /\ \A i \in DataRows : i < RowCount =>
               LexLess(results[i].cusip, results[i + 1].cusip)

\* C1 witness: a comparison of four identifiers, one of them a proper prefix
\* of another, held partly by the current side only and partly by the prior
\* side only.
C1_Witness ==
    /\ pc = "compared"
    /\ RowCount = 4
    /\ DOMAIN current \ DOMAIN prior # {}
    /\ DOMAIN prior \ DOMAIN current # {}
    /\ results[1].cusip = <<65>>
    /\ results[2].cusip = <<65, 66>>

\* C2: the summary's total_current_value is the sum of current_value over the
\* rows excluding the TOTAL row, it equals the TOTAL row's current_value, and
\* the per-status counts exclude the TOTAL row.
C2_SummaryTotalMatches ==
    pc = "done" =>
        /\ summary.total_current_value = SumRows(results, RowCount, "current_value")
        /\ summary.total_current_value = Get(LastRow.current_value)
        /\ summary.new_positions = CountStatus(results, RowCount, "NEW")
        /\ summary.exited_positions = CountStatus(results, RowCount, "EXITED")
        /\ summary.increased_positions = CountStatus(results, RowCount, "INCREASED")
        /\ summary.decreased_positions = CountStatus(results, RowCount, "DECREASED")
        /\ summary.unchanged_positions = CountStatus(results, RowCount, "UNCHANGED")

\* C3: the sum of current_value (None as 0) over the non-TOTAL rows equals the
\* TOTAL row's current_value, and likewise for prior_value, fractional
\* declared values included.
C3_ValueConservation ==
    Compared =>
        /\ SumRows(results, RowCount, "current_value") = Get(LastRow.current_value)
        /\ SumRows(results, RowCount, "prior_value") = Get(LastRow.prior_value)

\* the status the claim assigns to a row's (prior_shares, current_shares)
ClaimedStatus(p, c) ==
    IF p = 0 /\ c > 0 THEN "NEW"
    ELSE IF p > 0 /\ c = 0 THEN "EXITED"
    ELSE IF c > p /\ p > 0 THEN "INCREASED"
    ELSE IF p > c /\ c > 0 THEN "DECREASED"
    ELSE "UNCHANGED"

\* C4: every non-TOTAL row's status is one of the five statuses and is the
\* one the rules give for the row's (prior_shares, current_shares) pair, so
\* no two such pairs that are equal carry different statuses.
C4_StatusDeterminedByRowShares ==
    Compared =>
        \A i \in DataRows :
            /\ results[i].status \in Statuses
            /\ results[i].status =
                   ClaimedStatus(Get(results[i].prior_shares),
                                 Get(results[i].current_shares))

\* the percent_change the three-way rule gives, as a row stores it (rounded
\* to two decimals, in hundredths of a percent)
ClaimedPercentChange(pv, cv) ==
    IF pv # None /\ Get(pv) > 0
    THEN IF cv = None THEN Some(-10000)
         ELSE Some(RoundHalfEven((Get(cv) - Get(pv)) * 10000, Get(pv)))
    ELSE IF cv # None /\ Get(cv) > 0 THEN None
    ELSE Some(0)

\* C5: percent_change of every non-TOTAL row follows the three-way rule on
\* the two declared values: the ratio formula when the prior value is present
\* and > 0 (exactly -100 when the current value is absent), None when only the
\* current value is present and > 0, and 0 otherwise; the end-to-end scenario
\* gives 80.0 for A and None for B.
C5_PercentChangeRule ==
    Compared =>
        /\ \A i \in DataRows :
               results[i].percent_change =
                   ClaimedPercentChange(DeclaredValue(prior, results[i].cusip),
                                        DeclaredValue(current, results[i].cusip))
        /\ (current = ScenarioCurrent /\ prior = ScenarioPrior) =>
               /\ results[1].cusip = <<65>>
               /\ results[1].percent_change = Some(8000)
               /\ results[2].cusip = <<66>>
               /\ results[2].percent_change = None

\* C5 witness: one comparison in which a row falls by exactly 100 percent
\* because its current value is absent while another row has no percentage
\* because its prior value is absent.
C5_Witness ==
    /\ pc = "compared"
    /\ RowCount = 2
    /\ DeclaredValue(prior, results[1].cusip) = Some(MaxValueUnits)
    /\ DeclaredValue(current, results[1].cusip) = None
    /\ results[1].percent_change = Some(-10000)
    /\ DeclaredValue(prior, results[2].cusip) = None
    /\ DeclaredValue(current, results[2].cusip) = Some(1)
    /\ results[2].percent_change = None

\* C5 witness of the scenario being compared
C5_ScenarioReached ==
    pc = "compared" /\ current = ScenarioCurrent /\ prior = ScenarioPrior

C7_ValueNoneIffUndeclared ==
    Compared =>
        \A i \in DataRows :
            LET cv == DeclaredValue(current, results[i].cusip)
                pv == DeclaredValue(prior, results[i].cusip)
            IN  /\ results[i].current_value =
                       (IF cv = None THEN None ELSE Some(IntTrunc(Get(cv))))
                /\ results[i].prior_value =
                       (IF pv = None THEN None ELSE Some(IntTrunc(Get(pv))))

\* C8: for two empty snapshots the result is the TOTAL row alone, with
\* current_value 0, prior_value 0 and percent_change 0.0, and every count of
\* the summary calculated from it is 0.
C8_EmptyBoth ==
    (pc = "done" /\ DOMAIN current = {} /\ DOMAIN prior = {}) =>
        /\ Len(results) = 1
        /\ results[1].status = "TOTAL"
        /\ results[1].current_value = Some(0)
        /\ results[1].prior_value = Some(0)
        /\ results[1].percent_change = Some(0)
        /\ summary.total_positions = 0
        /\ summary.new_positions = 0
        /\ summary.exited_positions = 0
        /\ summary.increased_positions = 0
        /\ summary.decreased_positions = 0
        /\ summary.unchanged_positions = 0

-----------------------------------------------------------------------------
(* Properties of the filing locator *)

\* positions of the history whose form tag is '13F-HR'
MatchPositions == { k \in 1..Len(history) : history[k] = "13F-HR" }

MinOf(S) == CHOOSE x \in S : \A y \in S : x <= y

FirstMatch == MinOf(MatchPositions)
SecondMatch == MinOf(MatchPositions \ {FirstMatch})

\* the first two matching entries in source order (fewer when fewer exist)
ExpectedFilings ==
    IF MatchPositions = {} THEN <<>>
    ELSE IF Cardinality(MatchPositions) = 1 THEN << FilingEntry(FirstMatch) >>
    ELSE << FilingEntry(FirstMatch), FilingEntry(SecondMatch) >>

\* the entries a scan examines when it stops at the second match
ExpectedScanned ==
    IF Cardinality(MatchPositions) >= 2 THEN SecondMatch ELSE Len(history)

ScanOver == fpc \notin { "idle", "submissions", "scan" }

TooFew == submissions = None \/ Cardinality(MatchPositions) < 2

\* C9: get_latest_13f_filings returns, in source order, the first two entries
\* tagged '13F-HR' (the first as current, the second as prior) and examines no
\* entry after the second one; with fewer than two such entries, or a failed
\* lookup, get_fund_filings returns (None, None, None) and has requested no
\* document index and no document.
C9_FirstTwoFilingsOrFailure ==
    /\ (ScanOver /\ submissions # None) =>
           /\ filing_list = ExpectedFilings
           /\ scanned = ExpectedScanned
    /\ (ScanOver /\ submissions = None) => (filing_list = <<>> /\ scanned = 0)
    /\ TooFew => \A k \in 1..Len(requests) : requests[k].kind = "submissions"
    /\ (fpc = "returned" /\ TooFew) => result = FailureTriple
    /\ (fpc = "returned" /\ ~TooFew) =>
           /\ requests[2] = IndexRequest(FirstMatch)
           /\ requests[3] = IndexRequest(SecondMatch)
           /\ current_url.base = FirstMatch
           /\ prior_url.base = SecondMatch
           /\ result # FailureTriple =>
                  result[3] = Some(Metadata(ExpectedFilings))

\* C9 witness: a history that opens with an amendment and holds three
\* '13F-HR' entries; the call returned both documents after a scan that
\* stopped at the second match, one entry before the end.
C9_Witness ==
    /\ fpc = "returned"
    /\ history = << "13F-HR/A", "13F-HR", "13F-HR", "13F-HR" >>
    /\ result # FailureTriple
    /\ scanned = 3
    /\ Len(filing_list) = 2
    /\ filing_list[1].accessionNumber = 2
    /\ filing_list[2].accessionNumber = 3

\* C9, failure side reached: one '13F-HR' entry only, the failure triple
\* returned after the single submissions request.
C9_FailureReached ==
    /\ fpc = "returned"
    /\ submissions # None
    /\ Cardinality(MatchPositions) = 1
    /\ result = FailureTriple
    /\ Len(requests) = 1

\* requests sent in the window of SEC_RATE_LIMIT_PERIOD ticks starting at t
WindowCount(t) ==
    SumIssued(issued, t,
              IF t + SEC_RATE_LIMIT_PERIOD - 1 > MaxTime THEN MaxTime
              ELSE t + SEC_RATE_LIMIT_PERIOD - 1)

\* C10: no more than SEC_RATE_LIMIT_REQUESTS outbound requests are issued
\* within any interval of length SEC_RATE_LIMIT_PERIOD.
C10_QuotaPerWindow ==
    \A t \in Ticks : WindowCount(t) <= SEC_RATE_LIMIT_REQUESTS

\* C10, the part of the claim the code keeps: the counter is reset, and the
\* window restarted, only once the window that began at last_request_time
\* has elapsed.
C10_ResetOnlyAfterWindow ==
    [][ (request_count' = 0 /\ request_count # 0) =>
            /\ now' - last_request_time >= SEC_RATE_LIMIT_PERIOD
            /\ last_request_time' = now' ]_vars

-----------------------------------------------------------------------------
(* A comparison request: the routes compare and api_compare (app.py) *)

\* the cik a request can carry: a form field (compare) or a URL segment
CikInputs == { "", "abc", "1346824", "1346-824" }

\* request.form.get('cik', '').strip() is empty
IsBlankCik(cik) == cik = ""
\* cik.replace('-', '').replace(' ', '')
CleanCik(cik) == IF cik = "1346-824" THEN "1346824" ELSE cik
\* cik.isdigit()
IsDigitCik(cik) == cik = "1346824"

\* documents as download_xml returns them, by what parse_13f_xml makes of them
Documents == { "<informationTable>A,B", "<informationTable>A", "<informationTable" }

\* parse_13f_xml raises ValueError on a document it cannot recover
ParseRaises(doc) == doc = "<informationTable"

\* the snapshot parse_13f_xml returns for a well-formed document
ParsedSnapshot(doc) ==
    IF doc = "<informationTable>A,B" THEN ScenarioCurrent ELSE ScenarioPrior

\* what sec_client.get_fund_filings can do: raise (a KeyError on a response
\* without the expected columns), return the failure triple, or return two
\* documents and the metadata
FetchOutcomes ==
    { [ kind |-> "raise", value |-> FailureTriple ],
      [ kind |-> "return", value |-> FailureTriple ] }
    \cup { [ kind |-> "return",
             value |-> << Some(d1), Some(d2),
                          Some(Metadata(<< FilingEntry(1), FilingEntry(2) >>)) >> ] :
           d1 \in Documents, d2 \in Documents }

\* the except clauses around a step of compare, innermost first: the
\* exception classes each catches and the response it returns
CompareHandlers(step) ==
    (IF step \in { "parse_current", "parse_prior" }
     THEN << [ catches |-> { "ValueError" }, response |-> "index.html:error" ] >>
     ELSE << >>)
    \o << [ catches |-> { "ValueError", "KeyError" }, response |-> "index.html:error" ] >>

\* the except clause around every step of api_compare: `except Exception`
ApiHandlers(step) ==
    << [ catches |-> { "ValueError", "KeyError" }, response |-> "json:500" ] >>

\* HandlerChain with compare's catch-all `except Exception` clause missing
HandlerChainNoCatchAll(route, step) ==
    IF route = "compare"
    THEN IF step \in { "parse_current", "parse_prior" }
         THEN << [ catches |-> { "ValueError" }, response |-> "index.html:error" ] >>
         ELSE << >>
    ELSE ApiHandlers(step)

HandlerChain(route, step) ==
    IF route = "compare" THEN CompareHandlers(step) ELSE ApiHandlers(step)

\* the response a request ends in when exc is raised at step
RECURSIVE Dispatch(_, _)
Dispatch(chain, exc) ==
    IF chain = << >> THEN "unhandled"
    ELSE IF exc \in Head(chain).catches THEN Head(chain).response
    ELSE Dispatch(Tail(chain), exc)

Raise(route, step, exc) == Dispatch(HandlerChain(route, step), exc)

restOfRoute == <<fetchVars, rateVars, parseVars, indexVars, concVars, cacheVars, authVars>>

InitRoute ==
    /\ rt_route \in { "compare", "api_compare" }
    /\ rt_cik \in CikInputs
    /\ rt_route = "api_compare" => rt_cik # ""
    /\ rt_pc = IF rt_route = "compare" THEN "validate" ELSE "fetch"
    /\ rt_fetched = <<>>
    /\ rt_calls = <<>>
    /\ rt_response = ""
    /\ current = <<>>
    /\ prior = <<>>
    /\ results = <<>>
    /\ summary = NoSummary
    /\ pc = "idle"
    /\ FetchIdle
    /\ RateIdle
    /\ ParseIdle
    /\ IndexIdle
    /\ ConcIdle
    /\ CacheIdle
    /\ AuthIdle

\* compare: the cik is read, validated and cleaned (app.py 117-133)
ValidateCik ==
    /\ rt_pc = "validate"
    /\ rt_route = "compare"
    /\ IF IsBlankCik(rt_cik) \/ ~IsDigitCik(CleanCik(rt_cik))
       THEN /\ rt_response' = "index.html:error"
            /\ rt_pc' = "done"
            /\ rt_cik' = rt_cik
       ELSE /\ rt_cik' = CleanCik(rt_cik)
            /\ rt_pc' = "fetch"
            /\ rt_response' = rt_response
    /\ UNCHANGED <<rt_route, rt_fetched, rt_calls>>
    /\ UNCHANGED <<cmpVars, restOfRoute>>

\* current_xml, prior_xml, metadata = sec_client.get_fund_filings(cik)
RouteFetch ==
    /\ rt_pc = "fetch"
    /\ rt_calls' = Append(rt_calls, "get_fund_filings")
    /\ \E out \in FetchOutcomes :
         /\ rt_fetched' = out
         /\ IF out.kind = "raise"
            THEN /\ rt_response' = Raise(rt_route, "fetch", "KeyError")
                 /\ rt_pc' = "done"
            ELSE /\ rt_response' = rt_response
                 /\ rt_pc' = "check"
    /\ UNCHANGED <<rt_route, rt_cik>>
    /\ UNCHANGED <<cmpVars, restOfRoute>>

\* `if not current_xml or not prior_xml:` the error page, or the 404 JSON
RouteCheck ==
    /\ rt_pc = "check"
    /\ IF NotXml(rt_fetched.value[1]) \/ NotXml(rt_fetched.value[2])
       THEN /\ rt_response' =
                   IF rt_route = "compare" THEN "index.html:error" ELSE "json:404"
            /\ rt_pc' = "done"
       ELSE /\ rt_response' = rt_response
            /\ rt_pc' = "parse_current"
    /\ UNCHANGED <<rt_route, rt_cik, rt_fetched, rt_calls>>
    /\ UNCHANGED <<cmpVars, restOfRoute>>

\* current_positions = parse_13f_xml(current_xml)
RouteParseCurrent ==
    /\ rt_pc = "parse_current"
    /\ rt_calls' = Append(rt_calls, "parse_13f_xml:current")
    /\ LET doc == Get(rt_fetched.value[1])
       IN  IF ParseRaises(doc)
           THEN /\ rt_response' = Raise(rt_route, "parse_current", "ValueError")
                /\ rt_pc' = "done"
                /\ current' = current
           ELSE /\ current' = ParsedSnapshot(doc)
                /\ rt_pc' = "parse_prior"
                /\ rt_response' = rt_response
    /\ UNCHANGED <<rt_route, rt_cik, rt_fetched>>
    /\ UNCHANGED <<prior, results, summary, pc, restOfRoute>>

\* prior_positions = parse_13f_xml(prior_xml)
RouteParsePrior ==
    /\ rt_pc = "parse_prior"
    /\ rt_calls' = Append(rt_calls, "parse_13f_xml:prior")
    /\ LET doc == Get(rt_fetched.value[2])
       IN  IF ParseRaises(doc)
           THEN /\ rt_response' = Raise(rt_route, "parse_prior", "ValueError")
                /\ rt_pc' = "done"
                /\ prior' = prior
           ELSE /\ prior' = ParsedSnapshot(doc)
                /\ rt_pc' = "compare"
                /\ rt_response' = rt_response
    /\ UNCHANGED <<rt_route, rt_cik, rt_fetched>>
    /\ UNCHANGED <<current, results, summary, pc, restOfRoute>>

\* comparison = compare_filings(current_positions, prior_positions)
RouteCompare ==
    /\ rt_pc = "compare"
    /\ rt_calls' = Append(rt_calls, "compare_filings")
    /\ results' = compare_filings(current, prior)
    /\ rt_pc' = "summary"
    /\ UNCHANGED <<rt_route, rt_cik, rt_fetched, rt_response>>
    /\ UNCHANGED <<current, prior, summary, pc, restOfRoute>>

\* summary = calculate_summary(comparison)
RouteSummary ==
    /\ rt_pc = "summary"
    /\ rt_calls' = Append(rt_calls, "calculate_summary")
    /\ summary' = calculate_summary(results)
    /\ rt_pc' = "render"
    /\ UNCHANGED <<rt_route, rt_cik, rt_fetched, rt_response>>
    /\ UNCHANGED <<current, prior, results, pc, restOfRoute>>

\* render_template('results.html', ...) or jsonify({...})
RouteRender ==
    /\ rt_pc = "render"
    /\ rt_response' = IF rt_route = "compare" THEN "results.html" ELSE "json:200"
    /\ rt_pc' = "done"
    /\ UNCHANGED <<rt_route, rt_cik, rt_fetched, rt_calls>>
    /\ UNCHANGED <<cmpVars, restOfRoute>>

NextRoute ==
    \/ ValidateCik
    \/ RouteFetch
    \/ RouteCheck
    \/ RouteParseCurrent
    \/ RouteParsePrior
    \/ RouteCompare
    \/ RouteSummary
    \/ RouteRender

SpecRoute == InitRoute /\ [][NextRoute]_vars

-----------------------------------------------------------------------------
(* Properties of a comparison request *)

CallsBeforeComparing ==
    << "get_fund_filings", "parse_13f_xml:current", "parse_13f_xml:prior" >>

Called(name) == \E k \in 1..Len(rt_calls) : rt_calls[k] = name

\* both documents were retrieved
BothRetrieved ==
    /\ rt_fetched # <<>>
    /\ rt_fetched.kind = "return"
    /\ rt_fetched.value # FailureTriple

\* retrieval failed, or a parse that was reached raised
RetrievalOrParseFailed ==
    /\ rt_fetched # <<>>
    /\ \/ ~BothRetrieved
       \/ ParseRaises(Get(rt_fetched.value[1]))
       \/ ParseRaises(Get(rt_fetched.value[2]))

ErrorResponses == { "index.html:error", "json:404", "json:500" }

\* C11: compare_filings is invoked only after both documents were retrieved
\* and both were parsed without a raise, current before prior; when retrieval
\* fails or a parse raises, neither compare_filings nor calculate_summary is
\* invoked and the request ends in an explicit error response; no request
\* ends in an unhandled fault.
C11_CompareOnlyAfterBothParsed ==
    /\ \A k \in 1..Len(rt_calls) :
           rt_calls[k] = "compare_filings" =>
               /\ k = 4
               /\ SubSeq(rt_calls, 1, 3) = CallsBeforeComparing
               /\ BothRetrieved
               /\ ~ParseRaises(Get(rt_fetched.value[1]))
               /\ ~ParseRaises(Get(rt_fetched.value[2]))
               /\ current = ParsedSnapshot(Get(rt_fetched.value[1]))
               /\ prior = ParsedSnapshot(Get(rt_fetched.value[2]))
    /\ Called("calculate_summary") => Called("compare_filings")
    /\ (rt_pc = "done" /\ RetrievalOrParseFailed) =>
           /\ ~Called("compare_filings")
           /\ ~Called("calculate_summary")
           /\ rt_response \in ErrorResponses
    /\ rt_response # "unhandled"

\* C11 witness: a compare request whose retrieval raised ended in the error
\* page, having called neither compare_filings nor calculate_summary.
C11_Witness ==
    /\ rt_pc = "done"
    /\ rt_route = "compare"
    /\ rt_fetched # <<>>
    /\ rt_fetched.kind = "raise"
    /\ rt_calls = << "get_fund_filings" >>
    /\ rt_response = "index.html:error"

\* C11, the other cases reached: api_compare ends in the 500 JSON when the
\* prior document does not parse, and a request that compares has made the
\* three calls before it.
C11_PriorParseFailureReached ==
    /\ rt_pc = "done"
    /\ rt_route = "api_compare"
    /\ rt_calls = CallsBeforeComparing
    /\ rt_response = "json:500"

C11_ComparedReached ==
    /\ rt_pc = "done"
    /\ Called("compare_filings")
    /\ rt_response \in { "results.html", "json:200" }

-----------------------------------------------------------------------------
(* The filing parser: parse_13f_xml (services/xml_parser.py) *)

\* the most infoTable entries of a document
MaxEntries == 3

\* character codes of the texts in a document
SPACE == 32
COMMA == 44
DigitCodes == 48..57

\* str.strip(): leading and trailing whitespace removed
RECURSIVE LStrip(_)
LStrip(text) ==
    IF text # <<>> /\ Head(text) = SPACE THEN LStrip(Tail(text)) ELSE text

RECURSIVE RStrip(_)
RStrip(text) ==
    IF text # <<>> /\ text[Len(text)] = SPACE
    THEN RStrip(SubSeq(text, 1, Len(text) - 1))
    ELSE text

Strip(text) == LStrip(RStrip(text))

\* float(text.replace(",", "")): the number, or None where float() raises
\* ValueError
RemoveCommas(text) == SelectSeq(text, LAMBDA ch : ch # COMMA)

RECURSIVE DigitsValue(_)
DigitsValue(digits) ==
    IF digits = <<>> THEN 0
    ELSE 10 * DigitsValue(SubSeq(digits, 1, Len(digits) - 1))
         + (digits[Len(digits)] - 48)

ParseFloat(text) ==
    LET digits == RemoveCommas(text)
    IN  IF digits # <<>> /\ \A k \in 1..Len(digits) : digits[k] \in DigitCodes
        THEN Some(DigitsValue(digits))
        ELSE None

\* a child element looked up by elem.find(): missing, or present with its
\* text (None for an element without text)
NoElement == [ present |-> FALSE, text |-> None ]
Element(text) == [ present |-> TRUE, text |-> Some(text) ]
EmptyElement == [ present |-> TRUE, text |-> None ]

\* the children of one tag name: the namespace-qualified one and the bare one
Qualified(child) == [ q |-> child, b |-> NoElement ]
Bare(child) == [ q |-> NoElement, b |-> child ]
Missing == [ q |-> NoElement, b |-> NoElement ]

\* find_text(elem, tag, ns)
find_text(children, ns) ==
    IF ns /\ children.q.present /\ children.q.text # None
    THEN Some(Strip(Get(children.q.text)))
    ELSE IF children.b.present /\ children.b.text # None
         THEN Some(Strip(Get(children.b.text)))
         ELSE None

\* `find_text(...) or ""`
OrEmpty(text) == IF text = None THEN <<>> ELSE Get(text)

\* a text is truthy when it is not None and not empty
TruthyText(text) == text # None /\ Get(text) # <<>>

\* infoTable entries a document can hold
NoShares == [ present |-> FALSE, qualified |-> FALSE, sshPrnamt |-> Missing ]

EntryKinds ==
    { \* <cusip>A</cusip><value>1,0</value>, shares 5
      [ titleOfClass |-> Bare(Element(<<67, 79, 77>>)),
        nameOfIssuer |-> Bare(Element(<<88>>)), cusip |-> Bare(Element(<<65>>)),
        value |-> Bare(Element(<<49, 44, 48>>)),
        shrsOrPrnAmt |-> [ present |-> TRUE, qualified |-> FALSE,
                           sshPrnamt |-> Bare(Element(<<53>>)) ] ],
      \* <ns:cusip> A </ns:cusip><ns:value>7</ns:value>, shares 1,0
      [ titleOfClass |-> Missing,
        nameOfIssuer |-> Qualified(Element(<<89>>)),
        cusip |-> Qualified(Element(<<32, 65, 32>>)),
        value |-> Qualified(Element(<<55>>)),
        shrsOrPrnAmt |-> [ present |-> TRUE, qualified |-> TRUE,
                           sshPrnamt |-> Qualified(Element(<<49, 44, 48>>)) ] ],
      \* <cusip>B</cusip><value>x</value>, no shares element
      [ titleOfClass |-> Bare(Element(<<67, 79, 77>>)),
        nameOfIssuer |-> Missing, cusip |-> Bare(Element(<<66>>)),
        value |-> Bare(Element(<<120>>)), shrsOrPrnAmt |-> NoShares ],
      \* no cusip element
      [ titleOfClass |-> Missing,
        nameOfIssuer |-> Bare(Element(<<88>>)), cusip |-> Missing,
        value |-> Bare(Element(<<55>>)), shrsOrPrnAmt |-> NoShares ],
      \* <cusip> </cusip>
      [ titleOfClass |-> Bare(Element(<<67, 79, 77>>)),
        nameOfIssuer |-> Bare(Element(<<88>>)), cusip |-> Bare(Element(<<32>>)),
        value |-> Bare(Element(<<55>>)), shrsOrPrnAmt |-> NoShares ],
      \* <ns:cusip/><cusip>B</cusip>, no value, shares x
      [ titleOfClass |-> Missing,
        nameOfIssuer |-> Bare(EmptyElement),
        cusip |-> [ q |-> EmptyElement, b |-> Element(<<66>>) ],
        value |-> Missing,
        shrsOrPrnAmt |-> [ present |-> TRUE, qualified |-> FALSE,
                           sshPrnamt |-> Bare(Element(<<120>>)) ] ],
      \* <cusip/>
      [ titleOfClass |-> Bare(Element(<<67, 79, 77>>)),
        nameOfIssuer |-> Missing, cusip |-> Bare(EmptyElement),
        value |-> Bare(Element(<<55>>)), shrsOrPrnAmt |-> NoShares ],
      \* <ns:cusip>A</ns:cusip><cusip>B</cusip>
      [ titleOfClass |-> Missing,
        nameOfIssuer |-> Bare(Element(<<89>>)),
        cusip |-> [ q |-> Element(<<65>>), b |-> Element(<<66>>) ],
        value |-> Bare(Element(<<44>>)), shrsOrPrnAmt |-> NoShares ] }

EntryLists == UNION { [ 1..n -> EntryKinds ] : n \in 0..MaxEntries }

\* value = float(value_text.replace(",", "")) if value_text else None
ValueOf(entry, ns) ==
    LET value_text == find_text(entry.value, ns)
    IN  IF TruthyText(value_text) THEN ParseFloat(Get(value_text)) ELSE None

\* shares: 0.0 unless the shrsOrPrnAmt element is found and its sshPrnamt
\* parses
SharesOf(entry, ns) ==
    LET shrs_elem == entry.shrsOrPrnAmt
        found == shrs_elem.present /\ (shrs_elem.qualified <=> ns)
        sshPrnamt == find_text(shrs_elem.sshPrnamt, ns)
    IN  IF found /\ TruthyText(sshPrnamt) /\ ParseFloat(Get(sshPrnamt)) # None
        THEN Get(ParseFloat(Get(sshPrnamt)))
        ELSE 0

\* the dictionary stored for an entry under cusip
AttributesOf(entry, ns, cusip) ==
    [ issuer |-> OrEmpty(find_text(entry.nameOfIssuer, ns)),
      titleOfClass |-> OrEmpty(find_text(entry.titleOfClass, ns)),
      cusip |-> cusip,
      value |-> ValueOf(entry, ns),
      shares |-> SharesOf(entry, ns) ]

\* StoreFirst: Store keeping the attributes already stored under the key
StoreFirst(mapping, key, attributes) ==
    [ k \in DOMAIN mapping \cup { key } |->
        IF k \in DOMAIN mapping THEN mapping[k] ELSE attributes ]

\* positions[cusip] = {...}
Store(mapping, key, attributes) ==
    [ k \in DOMAIN mapping \cup { key } |->
        IF k = key THEN attributes ELSE mapping[k] ]

restOfParse == <<cmpVars, fetchVars, rateVars, routeVars, indexVars, concVars, cacheVars, authVars>>

InitParse ==
    /\ px_ns \in BOOLEAN
    /\ px_entries \in EntryLists
    /\ px_idx = 0
    /\ positions = <<>>
    /\ CompareIdle
    /\ FetchIdle
    /\ RateIdle
    /\ RouteIdle
    /\ IndexIdle
    /\ ConcIdle
    /\ CacheIdle
    /\ AuthIdle

\* one iteration of `for it in root.findall(info_table_xpath)`
ParseEntry ==
    /\ px_idx < Len(px_entries)
    /\ px_idx' = px_idx + 1
    /\ LET it == px_entries[px_idx + 1]
           cusip == find_text(it.cusip, px_ns)
       IN  IF ~TruthyText(cusip)
           THEN positions' = positions
           ELSE positions' = Store(positions, Strip(Get(cusip)),
                                   AttributesOf(it, px_ns, Strip(Get(cusip))))
    /\ UNCHANGED <<px_ns, px_entries>>
    /\ UNCHANGED restOfParse

NextParse == ParseEntry

SpecParse == InitParse /\ [][NextParse]_vars

-----------------------------------------------------------------------------
(* Properties of the filing parser *)

\* the entries the loop has been through
Processed == 1..px_idx

\* an entry's identifier is present when its cusip element has a text
HasIdentifier(k) == find_text(px_entries[k].cusip, px_ns) # None

\* the identifier of an entry, trimmed
TrimmedIdentifier(k) == Strip(Get(find_text(px_entries[k].cusip, px_ns)))

Identified == { k \in Processed : HasIdentifier(k) /\ TrimmedIdentifier(k) # <<>> }

\* the last entry, in document order, with the identifier
LastWith(id) ==
    CHOOSE k \in Identified :
        /\ TrimmedIdentifier(k) = id
        /\ \A j \in Identified : TrimmedIdentifier(j) = id => j <= k

\* C12: the mapping has no empty key, its keys are exactly the identifiers of
\* the entries whose identifier is present and non-empty after trimming, and
\* each key maps to the attributes of the last entry in document order that
\* has that identifier (after every iteration, so also at the return).
C12_LastEntryPerIdentifier ==
    /\ <<>> \notin DOMAIN positions
    /\ DOMAIN positions = { TrimmedIdentifier(k) : k \in Identified }
    /\ \A id \in DOMAIN positions :
           positions[id] = AttributesOf(px_entries[LastWith(id)], px_ns, id)

\* C12 witness: the parser has returned from a document in which two entries
\* carry the same identifier with different attributes and another entry has a
\* blank identifier, so there are fewer keys than entries.
C12_Witness ==
    /\ px_idx = Len(px_entries)
    /\ px_idx = MaxEntries
    /\ \E j, k \in Identified :
           /\ j < k
           /\ TrimmedIdentifier(j) = TrimmedIdentifier(k)
           /\ AttributesOf(px_entries[j], px_ns, TrimmedIdentifier(j))
                  # AttributesOf(px_entries[k], px_ns, TrimmedIdentifier(k))
    /\ \E k \in Processed : HasIdentifier(k) /\ TrimmedIdentifier(k) = <<>>
    /\ Cardinality(DOMAIN positions) = 1

-----------------------------------------------------------------------------
(* Locating the holdings document: get_infotable_url (services/sec_client.py) *)

restOfIndex == <<cmpVars, fetchVars, rateVars, routeVars, parseVars, concVars, cacheVars, authVars>>

InitIndex ==
    /\ ix_pc = "query"
    /\ ix_accession \in 1..MaxForms
    /\ ix_resp = <<>>
    /\ ix_url = <<>>
    /\ CompareIdle
    /\ FetchIdle
    /\ RateIdle
    /\ RouteIdle
    /\ ParseIdle
    /\ ConcIdle
    /\ CacheIdle
    /\ AuthIdle

\* the index request is answered: an exception, a non-200 status, or a listing
IndexQuery ==
    /\ ix_pc = "query"
    /\ ix_resp' \in IndexResponses
    /\ ix_pc' = "select"
    /\ UNCHANGED <<ix_accession, ix_url>>
    /\ UNCHANGED restOfIndex

\* the three strategies and the fallback
SelectUrl ==
    /\ ix_pc = "select"
    /\ ix_url' = InfotableUrl(ix_accession, ix_resp)
    /\ ix_pc' = "returned"
    /\ UNCHANGED <<ix_accession, ix_resp>>
    /\ UNCHANGED restOfIndex

NextIndex ==
    \/ IndexQuery
    \/ SelectUrl

SpecIndex == InitIndex /\ [][NextIndex]_vars

-----------------------------------------------------------------------------
(* Properties of get_infotable_url *)

\* the names a listing holds
Listed == { ix_resp.files[k] : k \in 1..Len(ix_resp.files) }

CanonicalListed == { name \in Listed : LowerIsInfotable(name) }

OtherXmlListed == { name \in Listed : NotPrimaryXml(name) }

\* the places of the listing that hold an XML file
XmlPlaces == { k \in 1..Len(ix_resp.files) : EndsWithXml(ix_resp.files[k]) }

\* C13: the location returned is under the filing's base path, and its file is
\* a canonically named one if the listing holds one; otherwise an XML file
\* that is neither primary nor cover if there is one; otherwise the only XML
\* file if there is exactly one; otherwise, and whenever the index query
\* raised or did not succeed, the canonical file name.  A location is always
\* returned.
C13_UrlByPriority ==
    ix_pc = "returned" =>
        /\ ix_url # <<>>
        /\ ix_url.base = ix_accession
        /\ IF ix_resp.kind # "ok" THEN ix_url.name = "infotable.xml"
           ELSE IF CanonicalListed # {} THEN ix_url.name \in CanonicalListed
           ELSE IF OtherXmlListed # {} THEN ix_url.name \in OtherXmlListed
           ELSE IF Cardinality(XmlPlaces) = 1
                THEN \A k \in XmlPlaces : ix_url.name = ix_resp.files[k]
           ELSE ix_url.name = "infotable.xml"

\* C13 witness: a listing whose canonically named file comes after another
\* XML file: the canonically named file is the one returned.
C13_Witness ==
    /\ ix_pc = "returned"
    /\ ix_resp.kind = "ok"
    /\ ix_resp.files = << "holdings.xml", "InfoTable.XML" >>
    /\ ix_url = Url(ix_accession, "InfoTable.XML")

\* C13, the other cases reached: the only XML file is a primary document;
\* two XML files, both primary or cover, leave the fallback; a query that
\* raised leaves the fallback.
C13_SoleXmlReached ==
    /\ ix_pc = "returned"
    /\ ix_resp.kind = "ok"
    /\ ix_resp.files = << "index.html", "primary_doc.xml" >>
    /\ ix_url.name = "primary_doc.xml"

C13_FallbackReached ==
    /\ ix_pc = "returned"
    /\ ix_resp.kind = "ok"
    /\ ix_resp.files = << "primary_doc.xml", "cover_page.xml" >>
    /\ ix_url.name = "infotable.xml"

C13_RaiseReached ==
    /\ ix_pc = "returned"
    /\ ix_resp.kind = "raise"
    /\ ix_url.name = "infotable.xml"

-----------------------------------------------------------------------------
(* _rate_limit called by two request threads on the one sec_client *)

\* the most calls of _rate_limit one thread makes
MaxThreadCalls == 2

\* calls already made, one after another, when the threads start
CallsBefore == { 0, SEC_RATE_LIMIT_REQUESTS - 2 }

restOfThreads == <<cmpVars, fetchVars, routeVars, parseVars, indexVars, cacheVars, authVars>>

InitThreads ==
    /\ now = 0
    /\ last_request_time = 0
    /\ request_count \in CallsBefore
    /\ issued = [ t \in Ticks |-> IF t = 0 THEN request_count ELSE 0 ]
    /\ rpc = "idle"
    /\ thr_pc = [ t \in Threads |-> "idle" ]
    /\ thr_tmp = [ t \in Threads |-> 0 ]
    /\ thr_wake = [ t \in Threads |-> 0 ]
    /\ thr_calls = [ t \in Threads |-> 0 ]
    /\ increments = request_count
    /\ CompareIdle
    /\ FetchIdle
    /\ RouteIdle
    /\ ParseIdle
    /\ IndexIdle
    /\ CacheIdle
    /\ AuthIdle

\* the clock advances
ThreadTick ==
    /\ now < MaxTime
    /\ now' = now + 1
    /\ UNCHANGED <<request_count, last_request_time, issued, rpc>>
    /\ UNCHANGED concVars
    /\ UNCHANGED restOfThreads

\* `self.request_count += 1`, first half: the attribute is loaded
LoadCount(t) ==
    /\ thr_pc[t] = "idle"
    /\ thr_calls[t] < MaxThreadCalls
    /\ thr_tmp' = [ thr_tmp EXCEPT ![t] = request_count ]
    /\ thr_pc' = [ thr_pc EXCEPT ![t] = "store" ]
    /\ UNCHANGED <<thr_wake, thr_calls, increments>>
    /\ UNCHANGED rateVars
    /\ UNCHANGED restOfThreads

\* `self.request_count += 1`, second half: the sum is stored
StoreCount(t) ==
    /\ thr_pc[t] = "store"
    /\ request_count' = thr_tmp[t] + 1
    /\ increments' = increments + 1
    /\ thr_pc' = [ thr_pc EXCEPT ![t] = "check" ]
    /\ UNCHANGED <<thr_tmp, thr_wake, thr_calls>>
    /\ UNCHANGED <<now, last_request_time, issued, rpc>>
    /\ UNCHANGED restOfThreads

\* `if self.request_count >= ...`, elapsed, and the start of the sleep
CheckCount(t) ==
    /\ thr_pc[t] = "check"
    /\ IF request_count >= SEC_RATE_LIMIT_REQUESTS
       THEN /\ thr_wake' = [ thr_wake EXCEPT ![t] = WakeTime(now - last_request_time) ]
            /\ thr_pc' = [ thr_pc EXCEPT ![t] = "sleep" ]
       ELSE /\ thr_wake' = thr_wake
            /\ thr_pc' = [ thr_pc EXCEPT ![t] = "send" ]
    /\ UNCHANGED <<thr_tmp, thr_calls, increments>>
    /\ UNCHANGED rateVars
    /\ UNCHANGED restOfThreads

\* time.sleep(sleep_time) returns, then `self.request_count = 0`
WakeAndReset(t) ==
    /\ thr_pc[t] = "sleep"
    /\ now >= thr_wake[t]
    /\ request_count' = 0
    /\ increments' = 0
    /\ thr_pc' = [ thr_pc EXCEPT ![t] = "stamp" ]
    /\ UNCHANGED <<thr_tmp, thr_wake, thr_calls>>
    /\ UNCHANGED <<now, last_request_time, issued, rpc>>
    /\ UNCHANGED restOfThreads

\* `self.last_request_time = time.time()`
StampTime(t) ==
    /\ thr_pc[t] = "stamp"
    /\ last_request_time' = now
    /\ thr_pc' = [ thr_pc EXCEPT ![t] = "send" ]
    /\ UNCHANGED <<thr_tmp, thr_wake, thr_calls, increments>>
    /\ UNCHANGED <<now, request_count, issued, rpc>>
    /\ UNCHANGED restOfThreads

\* session.get: the thread's outbound request leaves
ThreadSend(t) ==
    /\ thr_pc[t] = "send"
    /\ issued' = [ issued EXCEPT ![now] = @ + 1 ]
    /\ thr_calls' = [ thr_calls EXCEPT ![t] = @ + 1 ]
    /\ thr_pc' = [ thr_pc EXCEPT ![t] = "idle" ]
    /\ UNCHANGED <<thr_tmp, thr_wake, increments>>
    /\ UNCHANGED <<now, request_count, last_request_time, rpc>>
    /\ UNCHANGED restOfThreads

NextThreads ==
    \/ ThreadTick
    \/ \E t \in Threads : LoadCount(t)
    \/ \E t \in Threads : StoreCount(t)
    \/ \E t \in Threads : CheckCount(t)
    \/ \E t \in Threads : WakeAndReset(t)
    \/ \E t \in Threads : StampTime(t)
    \/ \E t \in Threads : ThreadSend(t)

SpecThreads == InitThreads /\ [][NextThreads]_vars

-----------------------------------------------------------------------------
(* Properties of _rate_limit under two threads *)

\* C14: with two threads interleaving their calls of _rate_limit, no
\* increment of request_count is lost (the counter equals the number of
\* increments made since it was last reset) and no more than
\* SEC_RATE_LIMIT_REQUESTS requests of the two threads together leave within
\* any interval of length SEC_RATE_LIMIT_PERIOD.
C14_NoLostIncrementQuotaKept ==
    /\ request_count = increments
    /\ \A t \in Ticks : WindowCount(t) <= SEC_RATE_LIMIT_REQUESTS

\* C14, the two halves apart
C14_NoLostIncrement == request_count = increments

C14_CombinedQuota == \A t \in Ticks : WindowCount(t) <= SEC_RATE_LIMIT_REQUESTS

-----------------------------------------------------------------------------
(* The memoised get_fund_filings: @lru_cache(maxsize=32) (services/sec_client.py) *)

maxsize == 32

\* two documents and the metadata of a fund, as filed in one quarter and in
\* the next
FiledTriple(quarter) ==
    << Some("<informationTable>A"), Some("<informationTable>A,B"),
       Some(Metadata(<< FilingEntry(quarter + 1), FilingEntry(quarter) >>)) >>

\* what an uncached get_fund_filings would do for a cik, given the state of
\* the external source: raise, return the failure triple, or return a
\* fund's documents
SourceStates ==
    { [ kind |-> "raise", value |-> FailureTriple ],
      [ kind |-> "return", value |-> FailureTriple ],
      [ kind |-> "return", value |-> FiledTriple(1) ],
      [ kind |-> "return", value |-> FiledTriple(2) ] }

\* the place of the cik's entry in the cache
CachePlaces(entries, cik) == { k \in 1..Len(entries) : entries[k].cik = cik }

\* the value remembered for the cik, or None
Remembered(entries, cik) ==
    IF CachePlaces(entries, cik) = {} THEN None
    ELSE Some(entries[CHOOSE k \in CachePlaces(entries, cik) : TRUE].value)

\* a hit makes the entry the most recently used
Touch(entries, cik) ==
    SelectSeq(entries, LAMBDA e : e.cik # cik)
    \o SelectSeq(entries, LAMBDA e : e.cik = cik)

\* a miss stores the value, evicting the least recently used entry of a full
\* cache
Remember(entries, cik, value) ==
    (IF Len(entries) >= maxsize THEN Tail(entries) ELSE entries)
    \o << [ cik |-> cik, value |-> value ] >>

restOfCache == <<cmpVars, fetchVars, rateVars, routeVars, parseVars, indexVars, concVars, authVars>>

InitCache ==
    /\ world \in [ Ciks -> SourceStates ]
    /\ cache = <<>>
    /\ last_call = <<>>
    /\ CompareIdle
    /\ FetchIdle
    /\ RateIdle
    /\ RouteIdle
    /\ ParseIdle
    /\ IndexIdle
    /\ ConcIdle
    /\ AuthIdle

\* the external source changes: it recovers, fails, or a new filing appears
SourceChange(cik) ==
    /\ \E state \in SourceStates \ { world[cik] } :
           world' = [ world EXCEPT ![cik] = state ]
    /\ UNCHANGED <<cache, last_call>>
    /\ UNCHANGED restOfCache

\* sec_client.get_fund_filings(cik) through the lru_cache wrapper
GetFundFilings(cik) ==
    /\ LET remembered == Remembered(cache, cik)
       IN  IF remembered # None
           THEN /\ cache' = Touch(cache, cik)
                /\ last_call' = [ cik |-> cik,
                                  remembered |-> remembered,
                                  fresh |-> FALSE,
                                  outcome |-> [ kind |-> "return",
                                                value |-> Get(remembered) ],
                                  uncached |-> world[cik] ]
           ELSE /\ cache' = IF world[cik].kind = "raise" THEN cache
                            ELSE Remember(cache, cik, world[cik].value)
                /\ last_call' = [ cik |-> cik,
                                  remembered |-> remembered,
                                  fresh |-> TRUE,
                                  outcome |-> world[cik],
                                  uncached |-> world[cik] ]
    /\ UNCHANGED world
    /\ UNCHANGED restOfCache

NextCache ==
    \/ \E cik \in Ciks : SourceChange(cik)
    \/ \E cik \in Ciks : GetFundFilings(cik)

SpecCache == InitCache /\ [][NextCache]_vars

-----------------------------------------------------------------------------
(* Properties of the memoised get_fund_filings *)

\* C15: a call for a cik whose earlier call returned the failure triple
\* performs a fresh retrieval, and every call gives the result an uncached
\* retrieval would give at that moment.
C15_FailureNotRemembered ==
    last_call # <<>> =>
        /\ last_call.remembered = Some(FailureTriple) => last_call.fresh
        /\ last_call.outcome = last_call.uncached

\* C15, the case alone: the source has the fund's documents, and the call
\* still returns the failure triple of an earlier call.
C15_NoStaleFailure ==
    ~ /\ last_call # <<>>
      /\ last_call.outcome.value = FailureTriple
      /\ last_call.outcome.kind = "return"
      /\ last_call.uncached.value # FailureTriple

-----------------------------------------------------------------------------
(* Sessions and the routes of the application (app.py) *)

\* passwords a login form can carry, by what check_password_hash makes of them
Passwords == { "the password", "another password", "" }

\* check_password_hash(config.PASSWORD_HASH, password)
check_password_hash(password) == password = "the password"

\* the condition under which login_required calls the route it wraps
LoginRequiredPasses(s) == bypass \/ authenticated[s]

\* what a served request did: the session it came from, the route, the
\* response, whether filings were fetched and whether comparison data was
\* returned
Served(s, route, response, fetched, data) ==
    [ session |-> s, route |-> route, response |-> response,
      fetched |-> fetched, data |-> data ]

restOfAuth == <<cmpVars, fetchVars, rateVars, routeVars, parseVars, indexVars, concVars, cacheVars>>

InitAuth ==
    /\ \E DEBUG \in BOOLEAN, DISABLE_AUTH_IN_DEV \in BOOLEAN :
           bypass = (DEBUG /\ DISABLE_AUTH_IN_DEV)
    /\ authenticated = [ s \in Sessions |-> FALSE ]
    /\ served = <<>>
    /\ CompareIdle
    /\ FetchIdle
    /\ RateIdle
    /\ RouteIdle
    /\ ParseIdle
    /\ IndexIdle
    /\ ConcIdle
    /\ CacheIdle

\* POST /login
LoginPost(s) ==
    /\ \E password \in Passwords :
         IF check_password_hash(password)
         THEN /\ authenticated' = [ authenticated EXCEPT ![s] = TRUE ]
              /\ served' = Served(s, "login", "redirect:index", FALSE, FALSE)
         ELSE /\ authenticated' = authenticated
              /\ served' = Served(s, "login", "login.html:error", FALSE, FALSE)
    /\ UNCHANGED bypass
    /\ UNCHANGED restOfAuth

\* GET /login
LoginGet(s) ==
    /\ served' = Served(s, "login",
                        IF authenticated[s] THEN "redirect:index" ELSE "login.html",
                        FALSE, FALSE)
    /\ UNCHANGED <<bypass, authenticated>>
    /\ UNCHANGED restOfAuth

\* GET /logout: session.clear()
Logout(s) ==
    /\ authenticated' = [ authenticated EXCEPT ![s] = FALSE ]
    /\ served' = Served(s, "logout", "redirect:login", FALSE, FALSE)
    /\ UNCHANGED bypass
    /\ UNCHANGED restOfAuth

\* GET /, behind login_required
Index(s) ==
    /\ served' = Served(s, "index",
                        IF LoginRequiredPasses(s) THEN "index.html" ELSE "redirect:login",
                        FALSE, FALSE)
    /\ UNCHANGED <<bypass, authenticated>>
    /\ UNCHANGED restOfAuth

\* POST /compare, behind login_required: an invalid cik is answered without a
\* fetch; otherwise filings are fetched and the results page or the error
\* page returned
Compare(s) ==
    /\ \E cik \in CikInputs, fetchedBoth \in BOOLEAN :
         served' =
           IF ~LoginRequiredPasses(s)
           THEN Served(s, "compare", "redirect:login", FALSE, FALSE)
           ELSE IF IsBlankCik(cik) \/ ~IsDigitCik(CleanCik(cik))
           THEN Served(s, "compare", "index.html:error", FALSE, FALSE)
           ELSE IF fetchedBoth
           THEN Served(s, "compare", "results.html", TRUE, TRUE)
           ELSE Served(s, "compare", "index.html:error", TRUE, FALSE)
    /\ UNCHANGED <<bypass, authenticated>>
    /\ UNCHANGED restOfAuth

\* GET /api/compare/<cik>: no login_required; filings are fetched and the
\* comparison or an error returned as JSON
ApiCompare(s) ==
    /\ \E fetchedBoth \in BOOLEAN :
         served' =
           IF fetchedBoth
           THEN Served(s, "api_compare", "json:200", TRUE, TRUE)
           ELSE Served(s, "api_compare", "json:404", TRUE, FALSE)
    /\ UNCHANGED <<bypass, authenticated>>
    /\ UNCHANGED restOfAuth

NextAuth ==
    \/ \E s \in Sessions : LoginPost(s)
    \/ \E s \in Sessions : LoginGet(s)
    \/ \E s \in Sessions : Logout(s)
    \/ \E s \in Sessions : Index(s)
    \/ \E s \in Sessions : Compare(s)
    \/ \E s \in Sessions : ApiCompare(s)

SpecAuth == InitAuth /\ [][NextAuth]_vars

-----------------------------------------------------------------------------
(* Properties of the routes *)

\* C16: when the development bypass is not active, no route fetches filings
\* or returns comparison data for a session that is not authenticated.
C16_NoDataWithoutLogin ==
    (served # <<>> /\ ~bypass /\ (served.fetched \/ served.data)) =>
        authenticated[served.session]

\* C16, the parts of the claim the code keeps: a session becomes
\* authenticated only by a login POST that redirects to the index (the
\* password was correct), and is not authenticated after logout; and the
\* compare route alone never serves a session that is not authenticated.
C16_AuthenticatedOnlyByLogin ==
    [][ \A s \in Sessions :
          /\ (authenticated'[s] /\ ~authenticated[s]) =>
                 served' = Served(s, "login", "redirect:index", FALSE, FALSE)
          /\ (served' # <<>> /\ served'.route = "logout" /\ served'.session = s) =>
                 ~authenticated'[s] ]_vars

C16_CompareRouteGuarded ==
    (served # <<>> /\ ~bypass /\ served.route = "compare"
       /\ (served.fetched \/ served.data)) =>
        authenticated[served.session]

====
